---- MODULE Spec2Model ----
(***************************************************************************)
(* Model of the bbcdisasm 6502 disassembler: Disassembler.Disassemble and  *)
(* Disassembler.findBranchTargets (src/disassemble.go) with the opcode     *)
(* table and operand decoder of src/opcodes.go.                            *)
(***************************************************************************)
EXTENDS Integers, Sequences, FiniteSets, TLC

VARIABLES
    Program,        \* d.Program, the bytes (index i of Go is i+1 here)
    Offset,         \* d.Offset
    MaxBytes,       \* d.MaxBytes
    BranchAdjust,   \* d.BranchAdjust
    CodeAddrs,      \* d.CodeAddrs, rewritten in place by Disassemble
    usedOSAddress,  \* d.usedOSAddress, the keys of the map
    usedOSVector,   \* d.usedOSVector, the keys of the map
    branchTargets,  \* package variable branchTargets: address -> label index
    iloc,           \* findBranchTargets' local map of reachable instructions
    pc,             \* position of the call
    cursor,         \* loop variable of the running pass
    prevCur,        \* loop variable of the running pass
    codeAddrIdx,    \* loop variable of the running pass
    out,            \* the lines written to w so far by the running call
    last,           \* the decision taken by the latest loop iteration
    calls,          \* number of Disassemble calls begun on this Disassembler
    given,          \* the CodeAddrs the caller supplied before the first call
    firstOut,       \* output of the first call, once a second call has begun
    firstTargets,   \* label table of the first call, once a second has begun
    marked,         \* what the running call's first pass marked used (OS
                    \* calls, OS vectors) and added as branch or jump target
    other,          \* a second Disassembler, while the scheduler runs this one
    cli             \* the disasm command: its arguments and how far it got

vars == <<Program, Offset, MaxBytes, BranchAdjust, CodeAddrs, usedOSAddress,
          usedOSVector, branchTargets, iloc, pc, cursor, prevCur, codeAddrIdx,
          out, last, calls, given, firstOut, firstTargets, marked, other, cli>>

----------------------------------------------------------------------------
(* Bounds of the model *)

\* Length of the program buffer
ProgLen == 3

\* Largest number of known-code addresses the caller supplies
MaxCodeAddrs == 2

\* Number of Disassemble calls made on the one Disassembler
MaxCalls == 2

\* Byte values the program is drawn from: BRK, BMI, JMP abs, SRE (zp),Y,
\* LDA abs, and the two unknown opcodes &F7 and &FF (OSCLI is &FFF7)
ByteChoices == {0, 48, 76, 83, 173, 247, 255}

\* Load addresses the caller may configure: none, a small one, &3000
AdjustChoices == {0, 1, 12288}

\* A loop that makes no progress writes lines for ever: stop it here
OutCap == 2 * ProgLen + 12

----------------------------------------------------------------------------
(* Go's uint: arithmetic wraps; the width is scaled down from 64 bits *)

UintMod == 1048576

UAdd(a, b) == (a + b) % UintMod

USub(a, b) == (a - b) % UintMod

----------------------------------------------------------------------------
(* src/opcodes.go: the opcode table and the registries *)

OpCodes == <<
    <<105, "ADC", 2, "Immediate">>, <<101, "ADC", 2, "ZeroPage">>, <<117, "ADC", 2, "ZeroPageX">>,
    <<109, "ADC", 3, "Absolute">>, <<125, "ADC", 3, "AbsoluteX">>, <<121, "ADC", 3, "AbsoluteY">>,
    <<97, "ADC", 2, "IndirectX">>, <<113, "ADC", 2, "IndirectY">>, <<11, "ANC", 2, "Immediate">>,
    <<43, "ANC", 2, "Immediate">>, <<41, "AND", 2, "Immediate">>, <<37, "AND", 2, "ZeroPage">>,
    <<53, "AND", 2, "ZeroPageX">>, <<45, "AND", 3, "Absolute">>, <<61, "AND", 3, "AbsoluteX">>,
    <<57, "AND", 3, "AbsoluteY">>, <<33, "AND", 2, "IndirectX">>, <<49, "AND", 2, "IndirectY">>,
    <<10, "ASL", 1, "Accumulator">>, <<6, "ASL", 2, "ZeroPage">>, <<22, "ASL", 2, "ZeroPageX">>,
    <<14, "ASL", 3, "Absolute">>, <<30, "ASL", 3, "AbsoluteX">>, <<36, "BIT", 2, "ZeroPage">>,
    <<44, "BIT", 3, "Absolute">>, <<16, "BPL", 2, "None">>, <<48, "BMI", 2, "None">>,
    <<80, "BVC", 2, "None">>, <<112, "BVS", 2, "None">>, <<144, "BCC", 2, "None">>,
    <<176, "BCS", 2, "None">>, <<208, "BNE", 2, "None">>, <<240, "BEQ", 2, "None">>,
    <<0, "BRK", 1, "None">>, <<201, "CMP", 2, "Immediate">>, <<197, "CMP", 2, "ZeroPage">>,
    <<213, "CMP", 2, "ZeroPageX">>, <<205, "CMP", 3, "Absolute">>, <<221, "CMP", 3, "AbsoluteX">>,
    <<217, "CMP", 3, "AbsoluteY">>, <<193, "CMP", 2, "IndirectX">>, <<209, "CMP", 2, "IndirectY">>,
    <<224, "CPX", 2, "Immediate">>, <<228, "CPX", 2, "ZeroPage">>, <<236, "CPX", 3, "Absolute">>,
    <<192, "CPY", 2, "Immediate">>, <<196, "CPY", 2, "ZeroPage">>, <<204, "CPY", 3, "Absolute">>,
    <<198, "DEC", 2, "ZeroPage">>, <<214, "DEC", 2, "ZeroPageX">>, <<206, "DEC", 3, "Absolute">>,
    <<222, "DEC", 3, "AbsoluteX">>, <<73, "EOR", 2, "Immediate">>, <<69, "EOR", 2, "ZeroPage">>,
    <<85, "EOR", 2, "ZeroPageX">>, <<77, "EOR", 3, "Absolute">>, <<93, "EOR", 3, "AbsoluteX">>,
    <<89, "EOR", 3, "AbsoluteY">>, <<65, "EOR", 2, "IndirectX">>, <<81, "EOR", 2, "IndirectY">>,
    <<24, "CLC", 1, "None">>, <<56, "SEC", 1, "None">>, <<88, "CLI", 1, "None">>,
    <<120, "SEI", 1, "None">>, <<184, "CLV", 1, "None">>, <<216, "CLD", 1, "None">>,
    <<248, "SED", 1, "None">>, <<230, "INC", 2, "ZeroPage">>, <<246, "INC", 2, "ZeroPageX">>,
    <<238, "INC", 3, "Absolute">>, <<254, "INC", 3, "AbsoluteX">>, <<76, "JMP", 3, "Absolute">>,
    <<108, "JMP", 3, "Indirect">>, <<32, "JSR", 3, "Absolute">>, <<169, "LDA", 2, "Immediate">>,
    <<165, "LDA", 2, "ZeroPage">>, <<181, "LDA", 2, "ZeroPageX">>, <<173, "LDA", 3, "Absolute">>,
    <<189, "LDA", 3, "AbsoluteX">>, <<185, "LDA", 3, "AbsoluteY">>, <<161, "LDA", 2, "IndirectX">>,
    <<177, "LDA", 2, "IndirectY">>, <<162, "LDX", 2, "Immediate">>, <<166, "LDX", 2, "ZeroPage">>,
    <<182, "LDX", 2, "ZeroPageY">>, <<174, "LDX", 3, "Absolute">>, <<190, "LDX", 3, "AbsoluteY">>,
    <<160, "LDY", 2, "Immediate">>, <<164, "LDY", 2, "ZeroPage">>, <<180, "LDY", 2, "ZeroPageX">>,
    <<172, "LDY", 3, "Absolute">>, <<188, "LDY", 3, "AbsoluteX">>, <<74, "LSR", 1, "Accumulator">>,
    <<70, "LSR", 2, "ZeroPage">>, <<86, "LSR", 2, "ZeroPageX">>, <<78, "LSR", 3, "Absolute">>,
    <<94, "LSR", 3, "AbsoluteX">>, <<234, "NOP", 1, "None">>, <<9, "ORA", 2, "Immediate">>,
    <<5, "ORA", 2, "ZeroPage">>, <<21, "ORA", 2, "ZeroPageX">>, <<13, "ORA", 3, "Absolute">>,
    <<29, "ORA", 3, "AbsoluteX">>, <<25, "ORA", 3, "AbsoluteY">>, <<1, "ORA", 2, "IndirectX">>,
    <<17, "ORA", 2, "IndirectY">>, <<170, "TAX", 1, "None">>, <<138, "TXA", 1, "None">>,
    <<202, "DEX", 1, "None">>, <<232, "INX", 1, "None">>, <<168, "TAY", 1, "None">>,
    <<152, "TYA", 1, "None">>, <<136, "DEY", 1, "None">>, <<200, "INY", 1, "None">>,
    <<42, "ROL", 1, "Accumulator">>, <<38, "ROL", 2, "ZeroPage">>, <<54, "ROL", 2, "ZeroPageX">>,
    <<46, "ROL", 3, "Absolute">>, <<62, "ROL", 3, "AbsoluteX">>, <<106, "ROR", 1, "Accumulator">>,
    <<102, "ROR", 2, "ZeroPage">>, <<118, "ROR", 2, "ZeroPageX">>, <<110, "ROR", 3, "Absolute">>,
    <<126, "ROR", 3, "AbsoluteX">>, <<64, "RTI", 1, "None">>, <<96, "RTS", 1, "None">>,
    <<233, "SBC", 2, "Immediate">>, <<229, "SBC", 2, "ZeroPage">>, <<245, "SBC", 2, "ZeroPageX">>,
    <<237, "SBC", 3, "Absolute">>, <<253, "SBC", 3, "AbsoluteX">>, <<249, "SBC", 3, "AbsoluteY">>,
    <<225, "SBC", 2, "IndirectX">>, <<241, "SBC", 2, "IndirectY">>, <<71, "SRE", 2, "ZeroPage">>,
    <<87, "SRE", 2, "ZeroPageX">>, <<79, "SRE", 3, "Absolute">>, <<95, "SRE", 3, "AbsoluteX">>,
    <<91, "SRE", 3, "AbsoluteY">>, <<67, "SRE", 2, "IndirectX">>, <<83, "SRE", 2, "IndirectY">>,
    <<133, "STA", 2, "ZeroPage">>, <<149, "STA", 2, "ZeroPageX">>, <<141, "STA", 3, "Absolute">>,
    <<157, "STA", 3, "AbsoluteX">>, <<153, "STA", 3, "AbsoluteY">>, <<129, "STA", 2, "IndirectX">>,
    <<145, "STA", 2, "IndirectY">>, <<154, "TXS", 1, "None">>, <<186, "TSX", 1, "None">>,
    <<72, "PHA", 1, "None">>, <<104, "PLA", 1, "None">>, <<8, "PHP", 1, "None">>,
    <<40, "PLP", 1, "None">>, <<7, "SLO", 2, "ZeroPage">>, <<23, "SLO", 2, "ZeroPageX">>,
    <<15, "SLO", 3, "Absolute">>, <<31, "SLO", 3, "AbsoluteX">>, <<27, "SLO", 3, "AbsoluteY">>,
    <<3, "SLO", 2, "IndirectX">>, <<19, "SLO", 2, "IndirectY">>, <<134, "STX", 2, "ZeroPage">>,
    <<150, "STX", 2, "ZeroPageY">>, <<142, "STX", 3, "Absolute">>, <<132, "STY", 2, "ZeroPage">>,
    <<148, "STY", 2, "ZeroPageX">>, <<140, "STY", 3, "Absolute">> >>

UndocumentedInstructions == {"ANC", "SRE", "SLO"}

branchInstructions == {"BPL", "BMI", "BVC", "BVS", "BCC", "BCS", "BNE", "BEQ"}

jumpInstructions == {"JMP", "JSR"}

OpJMP_Absolute == 76

OpJMP_Indirect == 108

OpJSR_Absolute == 32

OsCallTable == <<
    <<65465, "OSRDRM">>,
    <<65471, "OSEVEN">>,
    <<65474, "GSINIT">>,
    <<65477, "GSREAD">>,
    <<65480, "NVRDCH">>,
    <<65483, "NVWRCH">>,
    <<65486, "OSFIND">>,
    <<65504, "OSRDCH">>,
    <<65507, "OSASCI">>,
    <<65511, "OSNEWL">>,
    <<65518, "OSWRCH">>,
    <<65521, "OSWORD">>,
    <<65524, "OSBYTE">>,
    <<65527, "OSCLI">> >>

OsVectorTable == <<
    <<512, "USERV">>,
    <<514, "BRKV">>,
    <<516, "IRQ1V">>,
    <<518, "IRQ2V">>,
    <<520, "CLIV">>,
    <<522, "BYTEV">>,
    <<524, "WORDV">>,
    <<526, "WRCHV">>,
    <<528, "RDCHV">>,
    <<530, "FILEV">>,
    <<532, "ARGV">>,
    <<534, "BGETV">>,
    <<536, "BPUTV">>,
    <<538, "GBPBV">>,
    <<540, "FINDV">>,
    <<542, "FSCV">>,
    <<544, "EVENTV">>,
    <<546, "UPTV">>,
    <<548, "NETV">>,
    <<550, "VDUV">>,
    <<552, "KEYV">>,
    <<554, "INSV">>,
    <<556, "REMV">>,
    <<558, "CNPV">>,
    <<560, "IND1V">>,
    <<562, "IND2V">>,
    <<564, "IND3V">> >>

MkOpcode(t) == [Value |-> t[1], Name |-> t[2], Length |-> t[3], AddrMode |-> t[4]]

\* init(): later entries of OpCodes overwrite earlier ones with the same Value
OpCodesMap ==
    [b \in {OpCodes[i][1] : i \in DOMAIN OpCodes} |->
        LET i == CHOOSE j \in DOMAIN OpCodes :
                    /\ OpCodes[j][1] = b
                    /\ \A k \in DOMAIN OpCodes : OpCodes[k][1] = b => k <= j
        IN  MkOpcode(OpCodes[i])]

addressToOsCallName ==
    [a \in {OsCallTable[i][1] : i \in DOMAIN OsCallTable} |->
        LET i == CHOOSE j \in DOMAIN OsCallTable : OsCallTable[j][1] = a
        IN  OsCallTable[i][2]]

osVectorAddresses ==
    [a \in {OsVectorTable[i][1] : i \in DOMAIN OsVectorTable} |->
        LET i == CHOOSE j \in DOMAIN OsVectorTable : OsVectorTable[j][1] = a
        IN  OsVectorTable[i][2]]

branchOrJump(op) ==
    IF op.Name \in branchInstructions THEN "Branch"
    ELSE IF op.Name \in jumpInstructions THEN "Jump"
    ELSE "Neither"

isOpcodeDocumented(op) == op.Name \notin UndocumentedInstructions

----------------------------------------------------------------------------
(* fmt.Sprintf as the program uses it *)

HexDigits == <<"0", "1", "2", "3", "4", "5", "6", "7",
               "8", "9", "A", "B", "C", "D", "E", "F">>

RECURSIVE HexStr(_)
\* %X
HexStr(n) ==
    IF n < 16 THEN HexDigits[n + 1]
    ELSE HexStr(n \div 16) \o HexDigits[(n % 16) + 1]

RECURSIVE PadLeft(_, _, _)
PadLeft(s, w, c) == IF Len(s) >= w THEN s ELSE PadLeft(c \o s, w, c)

RECURSIVE PadRight(_, _)
\* %-6s, %-5s
PadRight(s, w) == IF Len(s) >= w THEN s ELSE PadRight(s \o " ", w)

\* %X where %02X is meant: no leading zero
Hex2_NoPad(n) == HexStr(n)

\* %02X
Hex2(n) == PadLeft(HexStr(n), 2, "0")

\* %04X
Hex4(n) == PadLeft(HexStr(n), 4, "0")

RECURSIVE DecStr(_)
\* %d of a value >= 0
DecStr(n) ==
    IF n < 10 THEN HexDigits[n + 1]
    ELSE DecStr(n \div 10) \o HexDigits[(n % 10) + 1]

\* %+d
SignedDec(n) == IF n < 0 THEN "-" \o DecStr(0 - n) ELSE "+" \o DecStr(n)

\* labelFormatString
LabelName(idx) == "label_" \o DecStr(idx)

----------------------------------------------------------------------------
(* src/opcodes.go: the operand decoder; bytes[0] of Go is bytes[1] here *)

\* Operand16 with the high byte taken first
Operand16_HighFirst(bytes) == bytes[2] * 256 + bytes[3]

\* (uint(bytes[2]) << 8) + uint(bytes[1])
Operand16(bytes) == bytes[3] * 256 + bytes[2]

\* boff of genBranch: the signed displacement plus 2
BranchOffset(bytes) ==
    (IF bytes[2] > 127 THEN bytes[2] - 256 ELSE bytes[2]) + 2

\* tgt := cursor + uint(boff) + branchAdjust
BranchTarget(bytes, cur, branchAdjust) ==
    (cur + BranchOffset(bytes) + branchAdjust) % UintMod

genAbsoluteOsCall(bytes, targets) ==
    LET addr == Operand16(bytes)
    IN  IF addr \in DOMAIN addressToOsCallName THEN addressToOsCallName[addr]
        ELSE IF addr \in DOMAIN targets THEN LabelName(targets[addr])
        ELSE "&" \o Hex4(addr)

\* genBranch that leaves the load address out of the target
genBranch_NoAdjust(bytes, cur, branchAdjust, targets) ==
    LET tgt == BranchTarget(bytes, cur, 0)
    IN  IF tgt \notin DOMAIN targets
        THEN "P%" \o SignedDec(BranchOffset(bytes))
        ELSE LabelName(targets[tgt])

genBranch(bytes, cur, branchAdjust, targets) ==
    LET tgt == BranchTarget(bytes, cur, branchAdjust)
    IN  IF tgt \notin DOMAIN targets
        THEN "P%" \o SignedDec(BranchOffset(bytes))
        ELSE LabelName(targets[tgt])

\* ClearLowBit that leaves the value as it is
ClearLowBit_Keep(val) == val

\* val &^ uint(1)
ClearLowBit(val) == val - (val % 2)

decode(op, bytes, cur, branchAdjust, targets) ==
    IF bytes[1] = OpJMP_Absolute \/ bytes[1] = OpJSR_Absolute
    THEN genAbsoluteOsCall(bytes, targets)
    ELSE IF branchOrJump(op) = "Branch"
    THEN genBranch(bytes, cur, branchAdjust, targets)
    ELSE CASE op.AddrMode = "None" -> ""
           [] op.AddrMode = "Accumulator" -> "A"
           [] op.AddrMode = "Immediate" -> "#&" \o Hex2(bytes[2])
           [] op.AddrMode = "Absolute" ->
                LET val == Operand16(bytes)
                IN  IF val \in DOMAIN osVectorAddresses
                    THEN osVectorAddresses[val]
                    ELSE IF ClearLowBit(val) \in DOMAIN osVectorAddresses
                    THEN osVectorAddresses[ClearLowBit(val)] \o "+1"
                    ELSE "&" \o Hex4(val)
           [] op.AddrMode = "ZeroPage" -> "&" \o Hex2(bytes[2])
           [] op.AddrMode = "ZeroPageX" -> "&" \o Hex2(bytes[2]) \o ",X"
           [] op.AddrMode = "ZeroPageY" -> "&" \o Hex2(bytes[2]) \o ",Y"
           [] op.AddrMode = "Indirect" -> "(&" \o Hex4(Operand16(bytes)) \o ")"
           [] op.AddrMode = "AbsoluteX" -> "&" \o Hex4(Operand16(bytes)) \o ",X"
           [] op.AddrMode = "AbsoluteY" -> "&" \o Hex4(Operand16(bytes)) \o ",Y"
           [] op.AddrMode = "IndirectX" -> "(&" \o Hex2(bytes[2]) \o ",X)"
           [] op.AddrMode = "IndirectY" -> "(&" \o Hex2(bytes[2]) \o "),Y"
           [] OTHER -> "UNKNOWN ADDRESS MODE"

----------------------------------------------------------------------------
(* src/disassemble.go: the classifier *)

\* willAssembleIdentically with the operand's two bytes taken in the wrong order
willAssembleIdentically_Swapped(op, instruction) ==
    IF op.AddrMode \in {"Absolute", "AbsoluteX", "AbsoluteY"}
    THEN ~(instruction[2] * 256 + instruction[3] < 256)
    ELSE TRUE

willAssembleIdentically(op, instruction) ==
    IF op.AddrMode \in {"Absolute", "AbsoluteX", "AbsoluteY"}
    THEN ~(Operand16(instruction) < 256)
    ELSE TRUE

----------------------------------------------------------------------------
(* User variables (the -D option of the command): the Disassembler keeps the
   name and value pairs AddVar was given, and the decoder, before anything
   else, writes the operand of an Absolute-mode instruction other than JMP
   and JSR as the name of a variable that has the operand's value *)

RECURSIVE JoinChars(_)
\* the string of a sequence of characters
JoinChars(s) == IF s = <<>> THEN "" ELSE Head(s) \o JoinChars(Tail(s))

\* the variables of the Disassembler: those the command has defined
Variables == IF cli.stage = "ready" THEN cli.vars ELSE <<>>

\* decode with the variables consulted first; of several variables with the
\* operand's value the one defined first is taken
decodeOperand(op, bytes, cur, branchAdjust, targets) ==
    LET hits == {i \in DOMAIN Variables : Variables[i].val = Operand16(bytes)}
    IN  IF /\ op.AddrMode = "Absolute"
           /\ bytes[1] \notin {OpJMP_Absolute, OpJSR_Absolute}
           /\ hits # {}
        THEN JoinChars(Variables[CHOOSE i \in hits : \A j \in hits : i <= j].name)
        ELSE decode(op, bytes, cur, branchAdjust, targets)

----------------------------------------------------------------------------
(* The lines written to w *)

Line(kind, addr, bytes, name, text, ud) ==
    [kind |-> kind, addr |-> addr, bytes |-> bytes, name |-> name,
     text |-> text, ud |-> ud]

HeaderLine(text) == Line("header", 0, <<>>, "", text, FALSE)

\* '.' + fmt.Sprintf(labelFormatString, targetIdx)
LabelLine(addr, idx) == Line("label", addr, <<>>, "", LabelName(idx), FALSE)

\* printInstruction showing only the bytes below Offset + MaxBytes
InstructionLine_CutAtLength(op, instruction, cur, branchAdjust, targets) ==
    Line("instr", UAdd(cur, branchAdjust),
         SubSeq(instruction, 1, Offset + MaxBytes - cur), op.Name,
         decodeOperand(op, instruction, cur, branchAdjust, targets), FALSE)

\* printInstruction: mnemonic, operand, address, the instruction's bytes
InstructionLine(op, instruction, cur, branchAdjust, targets) ==
    Line("instr", UAdd(cur, branchAdjust), instruction, op.Name,
         decodeOperand(op, instruction, cur, branchAdjust, targets), FALSE)

\* printData, then "UD " + op.Name for an undocumented opcode
DataLine(data, address, name, ud) == Line("data", address, data, name, "", ud)

RECURSIVE SortedSeq(_)
\* the keys of a map in ascending order, as text/template ranges over them
SortedSeq(S) ==
    IF S = {} THEN <<>>
    ELSE LET m == CHOOSE x \in S : \A y \in S : x <= y
         IN  <<m>> \o SortedSeq(S \ {m})

\* disasmHeader executed on the used sets and the load address (the rule
\* lines of the banner and the blank lines of the template are left out)
HeaderLines(usedAddr, usedVec, loadAddr) ==
    LET addrs == SortedSeq(usedAddr)
        vecs  == SortedSeq(usedVec)
    IN  << HeaderLine("\\ This disassembly was produced by bbcdisasm") >>
        \o (IF usedAddr = {} THEN <<>>
            ELSE << HeaderLine("\\ OS Call Addresses") >>
                 \o [i \in DOMAIN addrs |->
                        Line("header", addrs[i], <<>>, addressToOsCallName[addrs[i]],
                             PadRight(addressToOsCallName[addrs[i]], 6)
                                 \o " = &" \o HexStr(addrs[i]), FALSE)])
        \o (IF usedVec = {} THEN <<>>
            ELSE << HeaderLine("\\ OS Vector Addresses") >>
                 \o [i \in DOMAIN vecs |->
                        Line("header", vecs[i], <<>>, osVectorAddresses[vecs[i]],
                             PadRight(osVectorAddresses[vecs[i]], 5)
                                 \o " = &" \o HexStr(vecs[i]), FALSE)])
        \o (IF loadAddr # 0
            THEN << HeaderLine("CODE% = &" \o HexStr(loadAddr)),
                    HeaderLine("ORG CODE%") >>
            ELSE <<>>)

----------------------------------------------------------------------------
(* What a loop iteration decided *)

Step(pass, at, known, doc, wai, straddles, kind) ==
    [pass |-> pass, at |-> at, known |-> known, doc |-> doc, wai |-> wai,
     straddles |-> straddles, kind |-> kind]

NoStep == Step(0, 0, FALSE, FALSE, FALSE, FALSE, "none")

NoTargets == [a \in {} |-> 0]

\* nothing marked used yet by the running call
NoMarks == [addr |-> {}, vec |-> {}, tgt |-> {}]

\* no second Disassembler
NoOther == [pc |-> "none"]

\* the disasm command is not being run
NoCli == [stage |-> "none"]

----------------------------------------------------------------------------
(* Initial state: NewDisassembler(program), then the caller sets the window,
   the load address and the known-code addresses *)

Windows ==
    {w \in (0 .. 1) \X {ProgLen - 1, ProgLen} : w[1] + w[2] <= ProgLen}

\* the addresses of the program's bytes once loaded at ba
LoadedAddrs(ba) == {UAdd(ba, k) : k \in 0 .. ProgLen - 1}

RECURSIVE Descending(_)
Descending(s) ==
    Len(s) <= 1 \/ (s[1] >= s[2] /\ Descending(Tail(s)))

\* Disassemble sorts the list, so one order per list is enough: the
\* descending one, which the sort has to reverse
CodeAddrLists(ba) ==
    {s \in UNION {[1 .. n -> LoadedAddrs(ba)] : n \in 0 .. MaxCodeAddrs} :
        Descending(s)}

\* the fields NewDisassembler sets, the package variable branchTargets (nil
\* until the first call) and the positions of a Disassembler not yet used
Fresh ==
    /\ given = CodeAddrs
    /\ usedOSAddress = {}
    /\ usedOSVector = {}
    /\ branchTargets = NoTargets
    /\ iloc = {}
    /\ pc = "idle"
    /\ cursor = 0
    /\ prevCur = 0
    /\ codeAddrIdx = 0
    /\ out = <<>>
    /\ last = NoStep
    /\ calls = 0
    /\ firstOut = <<>>
    /\ firstTargets = NoTargets
    /\ marked = NoMarks

Init ==
    /\ Program \in [1 .. ProgLen -> ByteChoices]
    /\ \E w \in Windows : Offset = w[1] /\ MaxBytes = w[2]
    /\ BranchAdjust \in AdjustChoices
    /\ CodeAddrs \in CodeAddrLists(BranchAdjust)
    /\ Fresh
    /\ other = NoOther
    /\ cli = NoCli

\* Longer programs over fewer byte values (BMI, JMP abs, &F7, &FF),
\* disassembled whole, with at most one known-code address
LongLen == ProgLen + 2

LongBytes == {48, 76, 247, 255}

InitLong ==
    /\ Program \in [1 .. LongLen -> LongBytes]
    /\ Offset = 0
    /\ MaxBytes = LongLen
    /\ BranchAdjust \in AdjustChoices
    /\ CodeAddrs \in {<<>>} \cup
                     {<<UAdd(BranchAdjust, k)>> : k \in 0 .. LongLen - 1}
    /\ Fresh
    /\ other = NoOther
    /\ cli = NoCli

----------------------------------------------------------------------------
(* Disassemble, lines 46-52 and 56: sort CodeAddrs, take the load address
   off every entry in place, enter findBranchTargets *)

AdjustCodeAddrs(addrs, branchAdjust) ==
    LET sorted == SortSeq(addrs, LAMBDA a, b : a < b)
    IN  [i \in DOMAIN sorted |-> USub(sorted[i], branchAdjust)]

Begin ==
    /\ pc \in {"idle", "done"}
    /\ calls < MaxCalls
    /\ calls' = calls + 1
    /\ firstOut' = IF calls = 1 THEN out ELSE firstOut
    /\ firstTargets' = IF calls = 1 THEN branchTargets ELSE firstTargets
    /\ CodeAddrs' = AdjustCodeAddrs(CodeAddrs, BranchAdjust)
    /\ iloc' = {}
    /\ branchTargets' = NoTargets
    /\ cursor' = Offset
    /\ prevCur' = Offset
    /\ codeAddrIdx' = 0
    /\ out' = <<>>
    /\ last' = NoStep
    /\ marked' = NoMarks
    /\ pc' = "pass1"
    /\ UNCHANGED <<Program, Offset, MaxBytes, BranchAdjust, usedOSAddress,
                   usedOSVector, given, other, cli>>

----------------------------------------------------------------------------
(* findBranchTargets: one iteration of the loop at lines 272-342 *)

\* the address pass 1 compares the cursor with when it snaps (line 276)
FindSnapAddr(addrs, idx, branchAdjust) == USub(addrs[idx + 1], branchAdjust)

\* FindStraddles that also takes an instruction ending at the address
FindStraddles_OrEqual(cur, length, ca) == UAdd(cur, length) >= ca

\* line 292
FindStraddles(cur, length, ca) == UAdd(cur, length) > ca

\* FindBranchTarget that reads the displacement byte as an unsigned value
FindBranchTarget_Unsigned(instruction, cur, branchAdjust) ==
    (cur + (instruction[2] + 2) + branchAdjust) % UintMod

\* lines 303-311: boff := int(instruction[1]), less 256 above 127, plus 2;
\* tgt := cursor + uint(boff) + d.BranchAdjust
FindBranchTarget(instruction, cur, branchAdjust) ==
    LET boff == IF instruction[2] > 127 THEN instruction[2] - 256
                ELSE instruction[2]
    IN  (cur + (boff + 2) + branchAdjust) % UintMod

\* branchTargets[tgt] = 0 unless tgt is a key already
AddTarget(targets, tgt) ==
    IF tgt \in DOMAIN targets THEN targets
    ELSE [a \in DOMAIN targets \cup {tgt} |->
             IF a \in DOMAIN targets THEN targets[a] ELSE 0]

FindStep ==
    /\ pc = "pass1"
    /\ cursor < UAdd(Offset, MaxBytes)
    /\ LET snap == /\ codeAddrIdx < Len(CodeAddrs)
                   /\ prevCur < FindSnapAddr(CodeAddrs, codeAddrIdx, BranchAdjust)
                   /\ cursor >= FindSnapAddr(CodeAddrs, codeAddrIdx, BranchAdjust)
           cur  == IF snap THEN FindSnapAddr(CodeAddrs, codeAddrIdx, BranchAdjust)
                   ELSE cursor
           idx  == IF snap THEN codeAddrIdx + 1 ELSE codeAddrIdx
           b    == Program[cur + 1]
           op   == OpCodesMap[b]
           strad == /\ idx < Len(CodeAddrs)
                    /\ FindStraddles(cur, op.Length, CodeAddrs[idx + 1])
           instruction == SubSeq(Program, cur + 1, cur + op.Length)
           tgt16 == Operand16(instruction)
       IN  /\ prevCur' = cur
           /\ iloc' = iloc \cup {UAdd(cur, BranchAdjust)}
           /\ IF cur >= Len(Program)
              THEN \* d.Program[cursor]: index out of range
                   /\ pc' = "panic"
                   /\ last' = Step(1, cur, FALSE, FALSE, FALSE, FALSE, "panic")
                   /\ UNCHANGED <<cursor, codeAddrIdx, branchTargets,
                                  usedOSAddress, usedOSVector, marked>>
              ELSE IF b \notin DOMAIN OpCodesMap
              THEN /\ cursor' = UAdd(cur, 1)
                   /\ codeAddrIdx' = idx
                   /\ last' = Step(1, cur, FALSE, FALSE, FALSE, FALSE, "data")
                   /\ UNCHANGED <<pc, branchTargets, usedOSAddress, usedOSVector,
                                  marked>>
              ELSE IF strad
              THEN \* cursor += d.CodeAddrs[codeAddrIdx] - cursor; continue
                   /\ cursor' = UAdd(cur, USub(CodeAddrs[idx + 1], cur))
                   /\ codeAddrIdx' = idx + 1
                   /\ last' = Step(1, cur, TRUE, FALSE, FALSE, TRUE, "skip")
                   /\ UNCHANGED <<pc, branchTargets, usedOSAddress, usedOSVector,
                                  marked>>
              ELSE IF cur + op.Length > Len(Program)
              THEN \* d.Program[cursor : cursor+op.Length]: out of range
                   /\ pc' = "panic"
                   /\ codeAddrIdx' = idx
                   /\ last' = Step(1, cur, TRUE, FALSE, FALSE, FALSE, "panic")
                   /\ UNCHANGED <<cursor, branchTargets, usedOSAddress,
                                  usedOSVector, marked>>
              ELSE /\ cursor' = UAdd(cur, Len(instruction))
                   /\ codeAddrIdx' = idx
                   /\ last' = Step(1, cur, TRUE, FALSE, FALSE, FALSE, "code")
                   /\ pc' = pc
                   /\ branchTargets' =
                        IF branchOrJump(op) = "Branch"
                        THEN AddTarget(branchTargets,
                                       FindBranchTarget(instruction, cur, BranchAdjust))
                        ELSE IF branchOrJump(op) = "Jump" /\ b # OpJMP_Indirect
                        THEN AddTarget(branchTargets, tgt16)
                        ELSE branchTargets
                   /\ usedOSAddress' =
                        IF /\ branchOrJump(op) = "Jump"
                           /\ b # OpJMP_Indirect
                           /\ tgt16 \in DOMAIN addressToOsCallName
                        THEN usedOSAddress \cup {tgt16}
                        ELSE usedOSAddress
                   /\ usedOSVector' =
                        IF /\ branchOrJump(op) = "Neither"
                           /\ op.AddrMode = "Absolute"
                           /\ tgt16 \in DOMAIN osVectorAddresses
                        THEN usedOSVector \cup {tgt16}
                        ELSE usedOSVector
                   /\ marked' =
                        [addr |-> IF /\ branchOrJump(op) = "Jump"
                                     /\ b # OpJMP_Indirect
                                     /\ tgt16 \in DOMAIN addressToOsCallName
                                  THEN marked.addr \cup {tgt16}
                                  ELSE marked.addr,
                         vec  |-> IF /\ branchOrJump(op) = "Neither"
                                     /\ op.AddrMode = "Absolute"
                                     /\ tgt16 \in DOMAIN osVectorAddresses
                                  THEN marked.vec \cup {tgt16}
                                  ELSE marked.vec,
                         tgt  |-> IF branchOrJump(op) = "Branch"
                                  THEN marked.tgt \cup
                                       {FindBranchTarget(instruction, cur, BranchAdjust)}
                                  ELSE IF branchOrJump(op) = "Jump" /\ b # OpJMP_Indirect
                                  THEN marked.tgt \cup {tgt16}
                                  ELSE marked.tgt]
    /\ UNCHANGED <<Program, Offset, MaxBytes, BranchAdjust, CodeAddrs, out,
                   calls, given, firstOut, firstTargets, other, cli>>

\* int(k) of a uint key, the order sort.Ints puts the keys in
AsInt(k) == IF k >= UintMod \div 2 THEN k - UintMod ELSE k

\* lines 344-364: drop the targets that are no reachable instruction and
\* number the others in ascending order
NumberTargets(targets, reachable) ==
    LET keep == DOMAIN targets \cap reachable
    IN  [a \in keep |-> Cardinality({k \in keep : AsInt(k) < AsInt(a)})]

FindFinish ==
    /\ pc = "pass1"
    /\ ~(cursor < UAdd(Offset, MaxBytes))
    /\ branchTargets' = NumberTargets(branchTargets, iloc)
    /\ pc' = "header"
    /\ UNCHANGED <<Program, Offset, MaxBytes, BranchAdjust, CodeAddrs,
                   usedOSAddress, usedOSVector, iloc, cursor, prevCur,
                   codeAddrIdx, out, last, calls, given, firstOut, firstTargets,
                   marked, other, cli>>

----------------------------------------------------------------------------
(* Disassemble, lines 58-74: write the header, set up the second pass *)

WriteHeader ==
    /\ pc = "header"
    /\ out' = out \o HeaderLines(usedOSAddress, usedOSVector, BranchAdjust)
    /\ cursor' = Offset
    /\ prevCur' = Offset
    /\ codeAddrIdx' = 0
    /\ pc' = "pass2"
    /\ UNCHANGED <<Program, Offset, MaxBytes, BranchAdjust, CodeAddrs,
                   usedOSAddress, usedOSVector, branchTargets, iloc, last,
                   calls, given, firstOut, firstTargets, marked, other, cli>>

----------------------------------------------------------------------------
(* Disassemble: one iteration of the decoding loop at lines 75-167 *)

\* Straddles with the instruction's length forgotten
Straddles_NoLength(cur, length, ca) == cur >= ca

\* line 123
Straddles(cur, length, ca) == UAdd(cur, length) >= ca

\* line 126
DecodesAsCode(doc, wai, straddles) == doc /\ wai /\ ~straddles

\* DataBytes that never cuts the block
DataBytes_Whole(program, cur, length, straddles, ca) ==
    SubSeq(program, cur + 1, cur + length)

\* lines 139-142: the bytes of the data block, cut at the pending address.
\* instruction[:nb] reslices d.Program[cursor:cursor+nb]
DataBytes(program, cur, length, straddles, ca) ==
    IF straddles THEN SubSeq(program, cur + 1, cur + USub(ca, cur))
    ELSE SubSeq(program, cur + 1, cur + length)

DecodeStep ==
    /\ pc = "pass2"
    /\ cursor < UAdd(Offset, MaxBytes)
    /\ Len(out) < OutCap
    /\ LET snap == /\ codeAddrIdx < Len(CodeAddrs)
                   /\ prevCur < CodeAddrs[codeAddrIdx + 1]
                   /\ cursor >= CodeAddrs[codeAddrIdx + 1]
           cur  == IF snap THEN CodeAddrs[codeAddrIdx + 1] ELSE cursor
           idx  == IF snap THEN codeAddrIdx + 1 ELSE codeAddrIdx
           addr == UAdd(cur, BranchAdjust)
           labelled == IF addr \in DOMAIN branchTargets
                       THEN out \o <<LabelLine(addr, branchTargets[addr])>>
                       ELSE out
           b    == Program[cur + 1]
           op   == OpCodesMap[b]
           instruction == SubSeq(Program, cur + 1, cur + op.Length)
           doc  == isOpcodeDocumented(op)
           wai  == willAssembleIdentically(op, instruction)
           strad == /\ idx < Len(CodeAddrs)
                    /\ Straddles(cur, op.Length, CodeAddrs[idx + 1])
           ca   == CodeAddrs[idx + 1]
           data == DataBytes(Program, cur, op.Length, strad, ca)
       IN  /\ prevCur' = cur
           /\ codeAddrIdx' = idx
           /\ IF cur >= Len(Program)
              THEN \* d.Program[cursor]: index out of range
                   /\ pc' = "panic"
                   /\ out' = labelled
                   /\ cursor' = cur
                   /\ last' = Step(2, cur, FALSE, FALSE, FALSE, FALSE, "panic")
              ELSE IF b \notin DOMAIN OpCodesMap
              THEN /\ out' = labelled \o <<DataLine(<<b>>, addr, "", FALSE)>>
                   /\ cursor' = UAdd(cur, 1)
                   /\ pc' = pc
                   /\ last' = Step(2, cur, FALSE, FALSE, FALSE, FALSE, "data")
              ELSE IF cur + op.Length > Len(Program)
              THEN \* d.Program[cursor : cursor+op.Length]: out of range
                   /\ pc' = "panic"
                   /\ out' = labelled
                   /\ cursor' = cur
                   /\ last' = Step(2, cur, TRUE, FALSE, FALSE, FALSE, "panic")
              ELSE IF DecodesAsCode(doc, wai, strad)
              THEN /\ out' = labelled \o
                          <<InstructionLine(op, instruction, cur, BranchAdjust,
                                            branchTargets)>>
                   /\ cursor' = UAdd(cur, op.Length)
                   /\ pc' = pc
                   /\ last' = Step(2, cur, TRUE, doc, wai, strad, "instr")
              ELSE IF strad /\ USub(ca, cur) > Len(Program) - cur
              THEN \* instruction[:nb]: nb beyond the capacity of the slice
                   /\ pc' = "panic"
                   /\ out' = labelled
                   /\ cursor' = cur
                   /\ last' = Step(2, cur, TRUE, doc, wai, strad, "panic")
              ELSE /\ out' = labelled \o
                          <<DataLine(data, addr, IF doc THEN "" ELSE op.Name, ~doc)>>
                   /\ cursor' = UAdd(cur, Len(data))
                   /\ pc' = pc
                   /\ last' = Step(2, cur, TRUE, doc, wai, strad, "data")
    /\ UNCHANGED <<Program, Offset, MaxBytes, BranchAdjust, CodeAddrs,
                   usedOSAddress, usedOSVector, branchTargets, iloc, calls,
                   given, firstOut, firstTargets, marked, other, cli>>

\* DecodeFinish that throws the label table away when the loop ends
DecodeFinish_DropsLabels ==
    /\ pc = "pass2"
    /\ ~(cursor < UAdd(Offset, MaxBytes))
    /\ pc' = "done"
    /\ branchTargets' = NoTargets
    /\ UNCHANGED <<Program, Offset, MaxBytes, BranchAdjust, CodeAddrs,
                   usedOSAddress, usedOSVector, iloc, cursor, prevCur,
                   codeAddrIdx, out, last, calls, given, firstOut,
                   firstTargets, marked, other, cli>>

\* the loop condition at line 75 fails: Disassemble returns
DecodeFinish ==
    /\ pc = "pass2"
    /\ ~(cursor < UAdd(Offset, MaxBytes))
    /\ pc' = "done"
    /\ UNCHANGED <<Program, Offset, MaxBytes, BranchAdjust, CodeAddrs,
                   usedOSAddress, usedOSVector, branchTargets, iloc, cursor,
                   prevCur, codeAddrIdx, out, last, calls, given, firstOut,
                   firstTargets, marked, other, cli>>

----------------------------------------------------------------------------

Next ==
    \/ Begin
    \/ FindStep
    \/ FindFinish
    \/ WriteHeader
    \/ DecodeStep
    \/ DecodeFinish

Spec == Init /\ [][Next]_vars

SpecLong == InitLong /\ [][Next]_vars

----------------------------------------------------------------------------
(* The same Disassembler used for another window: between two calls the
   caller assigns the exported fields Offset and MaxBytes again *)

InitReuse ==
    /\ Program \in [1 .. ProgLen -> ByteChoices]
    /\ \E w \in Windows : Offset = w[1] /\ MaxBytes = w[2]
    /\ BranchAdjust \in AdjustChoices
    /\ CodeAddrs = <<>>
    /\ Fresh
    /\ other = NoOther
    /\ cli = NoCli

Retarget ==
    /\ pc = "done"
    /\ calls < MaxCalls
    /\ \E w \in Windows :
          /\ w # <<Offset, MaxBytes>>
          /\ Offset' = w[1]
          /\ MaxBytes' = w[2]
    /\ UNCHANGED <<Program, BranchAdjust, CodeAddrs, usedOSAddress,
                   usedOSVector, branchTargets, iloc, pc, cursor, prevCur,
                   codeAddrIdx, out, last, calls, given, firstOut,
                   firstTargets, marked, other, cli>>

NextReuse ==
    \/ Next
    \/ Retarget

SpecReuse == InitReuse /\ [][NextReuse]_vars

----------------------------------------------------------------------------
(* Two Disassemblers in two goroutines. The variables hold the fields and
   the locals of the one the scheduler is running and other holds those of
   the one that waits; the package variable branchTargets (opcodes.go:322)
   is the same for both. *)

\* the byte values of the two programs: BRK and BMI
TwoBytes == {0, 48}

\* the running Disassembler's own fields and the locals of its call
Parked ==
    [Program |-> Program, Offset |-> Offset, MaxBytes |-> MaxBytes,
     BranchAdjust |-> BranchAdjust, CodeAddrs |-> CodeAddrs,
     usedOSAddress |-> usedOSAddress, usedOSVector |-> usedOSVector,
     iloc |-> iloc, pc |-> pc, cursor |-> cursor, prevCur |-> prevCur,
     codeAddrIdx |-> codeAddrIdx, out |-> out, last |-> last,
     calls |-> calls, given |-> given, firstOut |-> firstOut,
     firstTargets |-> firstTargets, marked |-> marked]

\* NewDisassembler(program), the whole program as its window
FreshOther(program) ==
    [Program |-> program, Offset |-> 0, MaxBytes |-> Len(program),
     BranchAdjust |-> 0, CodeAddrs |-> <<>>,
     usedOSAddress |-> {}, usedOSVector |-> {},
     iloc |-> {}, pc |-> "idle", cursor |-> 0, prevCur |-> 0,
     codeAddrIdx |-> 0, out |-> <<>>, last |-> NoStep,
     calls |-> 0, given |-> <<>>, firstOut |-> <<>>,
     firstTargets |-> NoTargets, marked |-> NoMarks]

InitTwo ==
    /\ Program \in [1 .. ProgLen -> TwoBytes]
    /\ Offset = 0
    /\ MaxBytes = ProgLen
    /\ BranchAdjust = 0
    /\ CodeAddrs = <<>>
    /\ Fresh
    /\ \E q \in [1 .. ProgLen -> TwoBytes] : other = FreshOther(q)
    /\ cli = NoCli

\* the scheduler takes the running goroutine off and runs the other one
Switch ==
    /\ other.pc # "none"
    /\ other' = Parked
    /\ Program' = other.Program
    /\ Offset' = other.Offset
    /\ MaxBytes' = other.MaxBytes
    /\ BranchAdjust' = other.BranchAdjust
    /\ CodeAddrs' = other.CodeAddrs
    /\ usedOSAddress' = other.usedOSAddress
    /\ usedOSVector' = other.usedOSVector
    /\ iloc' = other.iloc
    /\ pc' = other.pc
    /\ cursor' = other.cursor
    /\ prevCur' = other.prevCur
    /\ codeAddrIdx' = other.codeAddrIdx
    /\ out' = other.out
    /\ last' = other.last
    /\ calls' = other.calls
    /\ given' = other.given
    /\ firstOut' = other.firstOut
    /\ firstTargets' = other.firstTargets
    /\ marked' = other.marked
    /\ UNCHANGED <<branchTargets, cli>>

NextTwo ==
    \/ Next
    \/ Switch

SpecTwo == InitTwo /\ [][NextTwo]_vars

----------------------------------------------------------------------------
(* Programs with immediate operands *)

\* BRK, BMI, JMP abs, LDA #, INY
ImmBytes == {0, 48, 76, 169, 200}

InitImmediate ==
    /\ Program \in [1 .. ProgLen -> ImmBytes]
    /\ \E w \in Windows : Offset = w[1] /\ MaxBytes = w[2]
    /\ BranchAdjust \in AdjustChoices
    /\ CodeAddrs \in CodeAddrLists(BranchAdjust)
    /\ Fresh
    /\ other = NoOther
    /\ cli = NoCli

SpecImmediate == InitImmediate /\ [][Next]_vars

----------------------------------------------------------------------------
(* The disasm command (disasmCmd): its arguments are strings, here the
   sequences of their characters *)

CliDigits == <<"0", "1", "2", "3", "4", "5", "6", "7",
               "8", "9", "a", "b", "c", "d", "e", "f">>

IsDigit(c, base) == \E i \in 1 .. base : CliDigits[i] = c

DigitValue(c) == (CHOOSE i \in 1 .. 16 : CliDigits[i] = c) - 1

RECURSIVE DigitsValue(_, _, _)
DigitsValue(s, base, acc) ==
    IF s = <<>> THEN acc
    ELSE DigitsValue(Tail(s), base, acc * base + DigitValue(Head(s)))

\* strconv.ParseInt(s, 0, 64) for an optional sign and either decimal digits
\* or 0x and hex digits (the octal and binary prefixes and the underscores
\* of base 0 are not among the arguments drawn)
ParseInt(s) ==
    LET signed == s # <<>> /\ s[1] \in {"-", "+"}
        body   == IF signed THEN Tail(s) ELSE s
        hex    == Len(body) >= 2 /\ body[1] = "0" /\ body[2] = "x"
        digits == IF hex THEN SubSeq(body, 3, Len(body)) ELSE body
        base   == IF hex THEN 16 ELSE 10
        ok     == digits # <<>> /\ \A i \in DOMAIN digits : IsDigit(digits[i], base)
        v      == DigitsValue(digits, base, 0)
    IN  [err |-> ~ok,
         val |-> IF ~ok THEN 0 ELSE IF s[1] = "-" THEN 0 - v ELSE v]

RECURSIVE Split(_, _)
\* strings.Split(s, sep) for a separator of one character
Split(s, sep) ==
    IF \A i \in DOMAIN s : s[i] # sep THEN <<s>>
    ELSE LET k == CHOOSE i \in DOMAIN s :
                      s[i] = sep /\ \A j \in 1 .. i - 1 : s[j] # sep
         IN  <<SubSeq(s, 1, k - 1)>> \o Split(SubSeq(s, k + 1, Len(s)), sep)

\* Disassembler.AddVar(name, value): fails on a value that is no number
AddVar(name, value) == [err |-> ParseInt(value).err, name |-> name,
                        val |-> ParseInt(value).val]

\* what a step of the command came to: an error to exit with, or values
Failed(msg) == [err |-> TRUE, msg |-> msg]

\* lines 26-52: the window from the optional offset and length arguments
ParseWindow(args, fileLen) ==
    LET off    == IF Len(args) >= 2 THEN ParseInt(args[2])
                  ELSE [err |-> FALSE, val |-> 0]
        offset == off.val
        len    == IF Len(args) >= 3 THEN ParseInt(args[3])
                  ELSE [err |-> FALSE, val |-> fileLen - offset]
    IN  IF Len(args) >= 2 /\ off.err THEN Failed("Could not parse offset")
        ELSE IF Len(args) >= 2 /\ offset < 0
        THEN Failed("offset cannot be before start of file")
        ELSE IF Len(args) >= 2 /\ offset >= fileLen
        THEN Failed("offset cannot be past end of file")
        ELSE IF Len(args) >= 3 /\ len.err THEN Failed("Could not parse length")
        ELSE IF Len(args) >= 3 /\ len.val < 0
        THEN Failed("length cannot be negative")
        ELSE [err |-> FALSE, offset |-> offset,
              length |-> IF Len(args) >= 3 /\ len.val > fileLen THEN fileLen
                         ELSE len.val]

\* ParseCodeAddrs that takes a negative address
ParseCodeAddrs_NoSignCheck(caddrs) ==
    LET saddrs == IF Len(caddrs) > 0 THEN Split(caddrs, ",") ELSE <<>>
    IN  IF \E i \in DOMAIN saddrs : ParseInt(saddrs[i]).err
        THEN Failed("Could not parse address")
        ELSE [err |-> FALSE,
              addrs |-> [i \in DOMAIN saddrs |-> ParseInt(saddrs[i]).val % UintMod]]

\* lines 62-75: the --codeaddrs flag
ParseCodeAddrs(caddrs) ==
    LET saddrs == IF Len(caddrs) > 0 THEN Split(caddrs, ",") ELSE <<>>
        bad    == {i \in DOMAIN saddrs :
                      ParseInt(saddrs[i]).err \/ ParseInt(saddrs[i]).val < 0}
        first  == CHOOSE i \in bad : \A j \in bad : i <= j
    IN  IF bad # {}
        THEN (IF ParseInt(saddrs[first]).err
              THEN Failed("Could not parse address")
              ELSE Failed("Invalid address"))
        ELSE [err |-> FALSE,
              addrs |-> [i \in DOMAIN saddrs |-> ParseInt(saddrs[i]).val]]

\* lines 77-87: the -D flags
ParseVars(dvars) ==
    LET parts(i) == Split(dvars[i], "=")
        bad   == {i \in DOMAIN dvars :
                     Len(parts(i)) <= 1 \/ AddVar(parts(i)[1], parts(i)[2]).err}
        first == CHOOSE i \in bad : \A j \in bad : i <= j
    IN  IF bad # {}
        THEN (IF Len(parts(first)) <= 1
              THEN Failed("invalid variable definition")
              ELSE Failed("non numeric value"))
        ELSE [err |-> FALSE,
              vars |-> [i \in DOMAIN dvars |->
                           AddVar(parts(i)[1], parts(i)[2])]]

\* the strings the offset and length arguments and the entries of
\* --codeaddrs are drawn from: "", x, -1, 0 .. 4, 0x2
ArgChoices ==
    { <<>>, <<"x">>, <<"-", "1">>, <<"0">>, <<"1">>, <<"2">>, <<"3">>,
      <<"4">>, <<"0", "x", "2">> }

\* the positional arguments: none, or the file and up to two numbers
ArgLists ==
    {<<>>, << <<"f">> >>}
    \cup {<< <<"f">>, a >> : a \in ArgChoices}
    \cup {<< <<"f">>, a, b >> : a \in ArgChoices, b \in ArgChoices}

\* --codeaddrs: absent, 1, x, -1, 1,2 and 2,x
CodeAddrArgs ==
    { <<>>, <<"1">>, <<"x">>, <<"-", "1">>, <<"1", ",", "2">>,
      <<"2", ",", "x">> }

\* -D: absent, a=1, a, a=x, a=0x2
DefineArgs ==
    { <<>>, << <<"a", "=", "1">> >>, << <<"a">> >>, << <<"a", "=", "x">> >>,
      << <<"a", "=", "0", "x", "2">> >> }

\* the command line, whether the file is there (Program is its content) and
\* the command's locals before it has run
Command(args, exists, loadaddr, codeaddrs, definevar) ==
    [stage |-> "start", args |-> args, exists |-> exists,
     loadaddr |-> loadaddr, codeaddrs |-> codeaddrs, definevar |-> definevar,
     offset |-> 0, length |-> 0, vars |-> <<>>, code |-> 0]

InitCli ==
    /\ Program \in [1 .. ProgLen -> TwoBytes]
    /\ Offset = 0
    /\ MaxBytes = 0
    /\ BranchAdjust = 0
    /\ CodeAddrs = <<>>
    /\ Fresh
    /\ other = NoOther
    /\ \E args \in ArgLists, exists \in BOOLEAN, loadaddr \in {0, 1},
          caddrs \in CodeAddrArgs, dvars \in DefineArgs :
          cli = Command(args, exists, loadaddr, caddrs, dvars)

\* return cli.Exit(..., 1)
Exit1 == [cli EXCEPT !.stage = "exit", !.code = 1]

\* disasmCmd, lines 15-52: the file argument, its length, the window
disasmCmdWindow ==
    /\ cli.stage = "start"
    /\ LET w == ParseWindow(cli.args, Len(Program))
       IN  cli' = IF Len(cli.args) < 1 \/ ~cli.exists \/ w.err THEN Exit1
                  ELSE [cli EXCEPT !.stage = "window", !.offset = w.offset,
                                   !.length = w.length]
    /\ UNCHANGED <<Program, Offset, MaxBytes, BranchAdjust, CodeAddrs,
                   usedOSAddress, usedOSVector, branchTargets, iloc, pc,
                   cursor, prevCur, codeAddrIdx, out, last, calls, given,
                   firstOut, firstTargets, marked, other>>

\* disasmCmd, lines 54-87: the Disassembler and its fields, the known-code
\* addresses, the variables
disasmCmdConfigure ==
    /\ cli.stage = "window"
    /\ LET ca == ParseCodeAddrs(cli.codeaddrs)
           dv == ParseVars(cli.definevar)
       IN  IF ca.err \/ dv.err
           THEN /\ cli' = Exit1
                /\ UNCHANGED <<Offset, MaxBytes, BranchAdjust, CodeAddrs, given>>
           ELSE /\ cli' = [cli EXCEPT !.stage = "ready", !.vars = dv.vars]
                /\ MaxBytes' = cli.length % UintMod
                /\ Offset' = cli.offset % UintMod
                /\ BranchAdjust' = cli.loadaddr % UintMod
                /\ CodeAddrs' = ca.addrs
                /\ given' = ca.addrs
    /\ UNCHANGED <<Program, usedOSAddress, usedOSVector, branchTargets, iloc,
                   pc, cursor, prevCur, codeAddrIdx, out, last, calls,
                   firstOut, firstTargets, marked, other>>

\* disasmCmd, line 89: disasm.Disassemble(os.Stdout)
disasmCmdDisassemble ==
    /\ cli.stage = "ready"
    /\ calls = 0
    /\ Begin

NextCli ==
    \/ disasmCmdWindow
    \/ disasmCmdConfigure
    \/ disasmCmdDisassemble
    \/ FindStep
    \/ FindFinish
    \/ WriteHeader
    \/ DecodeStep
    \/ DecodeFinish

SpecCli == InitCli /\ [][NextCli]_vars

----------------------------------------------------------------------------
(* Programs that use the OS vectors and the OS calls: LDA absolute, the
   undocumented SRE absolute, JMP absolute and indirect, over the bytes of
   &0200, &0201, &0202 and &FFF7 *)

VecBytes == {0, 1, 2, 76, 79, 108, 173, 247, 255}

InitVector ==
    /\ Program \in [1 .. ProgLen -> VecBytes]
    /\ \E w \in Windows : Offset = w[1] /\ MaxBytes = w[2]
    /\ BranchAdjust \in AdjustChoices
    /\ CodeAddrs \in CodeAddrLists(BranchAdjust)
    /\ Fresh
    /\ other = NoOther
    /\ cli = NoCli

SpecVector == InitVector /\ [][Next]_vars

----------------------------------------------------------------------------
(* Programs loaded so high that their addresses pass the top of the uint
   range (--loadaddr -1 gives BranchAdjust = uint(-1)): BMI with the
   displacements 0 and -2, disassembled whole *)

WrapBytes == {0, 48, 254}

WrapAdjusts == {UintMod - 1, UintMod - 2}

InitWrap ==
    /\ Program \in [1 .. LongLen -> WrapBytes]
    /\ Offset = 0
    /\ MaxBytes = LongLen
    /\ BranchAdjust \in WrapAdjusts
    /\ CodeAddrs = <<>>
    /\ Fresh
    /\ other = NoOther
    /\ cli = NoCli

SpecWrap == InitWrap /\ [][Next]_vars

----------------------------------------------------------------------------
(* The disasm command on programs of LDA absolute over the bytes of &0100 -
   &0102 and &0200 - &0202, with variables defined for some of these values *)

VarBytes == {0, 1, 2, 173}

\* -D: absent, a=512, a=513, a=0x100, and b=514 with a=0x202
VarArgs ==
    { <<>>,
      << <<"a", "=", "5", "1", "2">> >>,
      << <<"a", "=", "5", "1", "3">> >>,
      << <<"a", "=", "0", "x", "1", "0", "0">> >>,
      << <<"b", "=", "5", "1", "4">>, <<"a", "=", "0", "x", "2", "0", "2">> >> }

InitVars ==
    /\ Program \in [1 .. ProgLen -> VarBytes]
    /\ Offset = 0
    /\ MaxBytes = 0
    /\ BranchAdjust = 0
    /\ CodeAddrs = <<>>
    /\ Fresh
    /\ other = NoOther
    /\ \E loadaddr \in {0, 1}, caddrs \in {<<>>, <<"2">>}, dvars \in VarArgs :
          cli = Command(<< <<"f">> >>, TRUE, loadaddr, caddrs, dvars)

SpecVars == InitVars /\ [][NextCli]_vars

----------------------------------------------------------------------------
(* Properties *)

RECURSIVE EmittedBytes(_)
\* the bytes shown on the instruction and data lines, in output order
EmittedBytes(lines) ==
    IF lines = <<>> THEN <<>>
    ELSE (IF Head(lines).kind \in {"instr", "data"}
          THEN Head(lines).bytes ELSE <<>>)
         \o EmittedBytes(Tail(lines))

\* a data line that holds fewer bytes than its opcode's instruction has
IsCutData(line) ==
    /\ line.kind = "data"
    /\ line.bytes # <<>>
    /\ line.bytes[1] \in DOMAIN OpCodesMap
    /\ Len(line.bytes) < OpCodesMap[line.bytes[1]].Length

\* C1: throughout the second pass and when Disassemble has returned, the
\* bytes on the instruction and data lines written so far, put end to end,
\* are exactly Program[Offset : cursor]: no byte of the program is skipped
\* and none is written twice.
C1_BytesOnce ==
    pc \in {"pass2", "done"} =>
        EmittedBytes(out) = SubSeq(Program, Offset + 1, cursor)

\* a finished call that wrote a data block cut at a known-code address and
\* an instruction
C1_Witness ==
    /\ pc = "done"
    /\ cursor > Offset
    /\ \E i \in DOMAIN out : IsCutData(out[i])
    /\ \E i \in DOMAIN out : out[i].kind = "instr"

----------------------------------------------------------------------------

\* the latest iteration was one of the second pass and wrote a line
DecodedLine == last.pass = 2 /\ last.kind \in {"instr", "data"}

\* the opcode byte the latest iteration looked at
LastByte == Program[last.at + 1]

\* the known-code address pending at the latest iteration, if there is one
HasPending == codeAddrIdx < Len(CodeAddrs)

Pending == CodeAddrs[codeAddrIdx + 1]

\* the 16-bit little-endian operand at the latest iteration's cursor
LastOperand16 == Program[last.at + 2] + 256 * Program[last.at + 3]

\* an instruction at the latest cursor is safe to write as code: documented,
\* not an absolute-mode operand below &100, and not reaching beyond the
\* pending known-code address
SafeAsCode ==
    /\ LastByte \in DOMAIN OpCodesMap
    /\ OpCodesMap[LastByte].Name \notin {"ANC", "SRE", "SLO"}
    /\ ~(/\ OpCodesMap[LastByte].AddrMode \in {"Absolute", "AbsoluteX", "AbsoluteY"}
         /\ LastOperand16 < 256)
    /\ ~(HasPending /\ last.at + OpCodesMap[LastByte].Length > Pending)

\* C2: an iteration of the second pass writes an instruction line iff the
\* byte is a known, documented opcode that assembles identically and whose
\* bytes do not go beyond the next pending known-code address; otherwise it
\* writes a data line.
C2_CodeIffSafe ==
    DecodedLine => (last.kind = "instr" <=> SafeAsCode)

\* C3: willAssembleIdentically is false exactly for an Absolute, AbsoluteX or
\* AbsoluteY opcode whose 16-bit little-endian operand is below &100.
C3_AssemblesIdentically ==
    (DecodedLine /\ last.known) =>
        (last.wai <=>
            ~(/\ OpCodesMap[LastByte].AddrMode \in {"Absolute", "AbsoluteX", "AbsoluteY"}
              /\ LastOperand16 < 256))

\* the second pass met an absolute-mode instruction with a zero-page operand,
\* found it unsafe and wrote it as data
C3_Witness ==
    /\ DecodedLine
    /\ last.known
    /\ OpCodesMap[LastByte].AddrMode = "Absolute"
    /\ LastOperand16 < 256
    /\ ~last.wai
    /\ last.kind = "data"

----------------------------------------------------------------------------

\* the positions in out of the label lines
LabelLines == {i \in DOMAIN out : out[i].kind = "label"}

\* C4: when Disassemble has returned, there are as many label lines as the
\* label table has entries, and every entry A -> k has exactly one line
\* '.label_k', written immediately before the instruction or data line of
\* address A.
C4_LabelLines ==
    pc = "done" =>
        /\ Cardinality(LabelLines) = Cardinality(DOMAIN branchTargets)
        /\ \A a \in DOMAIN branchTargets :
              /\ Cardinality({i \in LabelLines :
                     out[i].text = "label_" \o DecStr(branchTargets[a])}) = 1
              /\ \E i \in LabelLines :
                    /\ out[i].text = "label_" \o DecStr(branchTargets[a])
                    /\ i + 1 \in DOMAIN out
                    /\ out[i + 1].kind \in {"instr", "data"}
                    /\ out[i + 1].addr = a

----------------------------------------------------------------------------

\* the known-code addresses (as positions in Program) strictly inside the
\* instruction of the known opcode at position c, all of whose bytes the
\* program holds
InsideSpan(c) ==
    IF /\ c < Len(Program)
       /\ Program[c + 1] \in DOMAIN OpCodesMap
       /\ c + OpCodesMap[Program[c + 1]].Length <= Len(Program)
    THEN {CodeAddrs[i] : i \in DOMAIN CodeAddrs} \cap
         (c + 1 .. c + OpCodesMap[Program[c + 1]].Length - 1)
    ELSE {}

\* the first of them
FirstInside(c) == CHOOSE a \in InsideSpan(c) : \A x \in InsideSpan(c) : a <= x

\* an iteration of the second pass is taken
DecodeTaken == pc = "pass2" /\ pc' # "done" /\ last'.pass = 2

\* C5: when the second pass is at a known opcode with a known-code address A
\* strictly inside its instruction, the iteration writes one data line that
\* holds exactly Program[cursor : A], and the line written next starts at
\* address A.
C5_CutAtKnownAddress ==
    [][ /\ (DecodeTaken /\ InsideSpan(last'.at) # {}) =>
             /\ Len(out') > Len(out)
             /\ out'[Len(out')].kind = "data"
             /\ out'[Len(out')].bytes =
                    SubSeq(Program, last'.at + 1, FirstInside(last'.at))
             /\ out'[Len(out')].addr = UAdd(last'.at, BranchAdjust)
        /\ (DecodeTaken /\ last.pass = 2 /\ InsideSpan(last.at) # {}
              /\ Len(out') > Len(out)) =>
             out'[Len(out) + 1].addr = UAdd(FirstInside(last.at), BranchAdjust)
      ]_vars

----------------------------------------------------------------------------

\* the known-code addresses the caller gave that fall inside the window
GivenInWindow ==
    {given[i] : i \in DOMAIN given} \cap
    {UAdd(p, BranchAdjust) : p \in Offset .. Offset + MaxBytes - 1}

\* C6: every known-code address inside the window is recorded by the first
\* pass as a reachable instruction, and the second pass starts a line at it
\* and has it inside no line.
C6_KnownAddressIsStart ==
    /\ (calls = 1 /\ pc \in {"header", "pass2", "done"}) =>
          \A a \in GivenInWindow : a \in iloc
    /\ (calls = 1 /\ pc = "done") =>
          \A a \in GivenInWindow :
              /\ \E i \in DOMAIN out :
                    out[i].kind \in {"instr", "data"} /\ out[i].addr = a
              /\ \A i \in DOMAIN out :
                    out[i].kind \in {"instr", "data"} =>
                        ~(out[i].addr < a /\ a < out[i].addr + Len(out[i].bytes))

----------------------------------------------------------------------------

\* the operand byte of a two-byte instruction line read as a signed value
Displacement(line) ==
    IF line.bytes[2] >= 128 THEN line.bytes[2] - 256 ELSE line.bytes[2]

\* the address a branch written on a line goes to; a negative one wraps
TargetOf(line) == (line.addr + 2 + Displacement(line)) % UintMod

\* the positions in out of the relative branches written as code
BranchLines ==
    {i \in DOMAIN out :
        out[i].kind = "instr" /\ out[i].name \in branchInstructions}

\* C7: a relative branch written as code has a label name as operand iff its
\* target is a key of the label table, and then it is that key's label;
\* otherwise, and so whenever the target is no reachable instruction, the
\* operand is P% followed by the signed value displacement + 2.
C7_BranchOperand ==
    pc \in {"pass2", "done"} =>
        \A i \in BranchLines :
            /\ out[i].text =
                  IF TargetOf(out[i]) \in DOMAIN branchTargets
                  THEN "label_" \o DecStr(branchTargets[TargetOf(out[i])])
                  ELSE "P%" \o SignedDec(Displacement(out[i]) + 2)
            /\ TargetOf(out[i]) \notin iloc =>
                  out[i].text = "P%" \o SignedDec(Displacement(out[i]) + 2)

\* a finished call that wrote a branch whose target, the branch's own operand
\* byte, is no reachable instruction, with the expression P%+1
C7_Witness ==
    /\ pc = "done"
    /\ \E i \in BranchLines :
          /\ Displacement(out[i]) = -1
          /\ TargetOf(out[i]) \notin iloc
          /\ TargetOf(out[i]) \notin DOMAIN branchTargets
          /\ out[i].text = "P%+1"

----------------------------------------------------------------------------

\* the positions in out of the absolute JMP and JSR written as code
JumpLines ==
    {i \in DOMAIN out :
        out[i].kind = "instr" /\ out[i].bytes[1] \in {76, 32}}

\* the 16-bit target of the jump on a line
JumpTarget(line) == line.bytes[2] + 256 * line.bytes[3]

\* the header of the output defines name as address a
HeaderDefines(name, a) ==
    \E i \in DOMAIN out :
        /\ out[i].kind = "header"
        /\ out[i].text = PadRight(name, 6) \o " = &" \o HexStr(a)

\* C8: an absolute JMP or JSR written as code has as operand the OS-call name
\* of its target if the target is in the OS-call registry, else the target's
\* label if it has one, else the target as four hex digits; and the header
\* defines a name for the target iff the target is in the OS-call registry.
C8_JumpOperand ==
    pc \in {"pass2", "done"} =>
        \A i \in JumpLines :
            LET t == JumpTarget(out[i])
            IN  /\ out[i].text =
                      IF t \in DOMAIN addressToOsCallName
                      THEN addressToOsCallName[t]
                      ELSE IF t \in DOMAIN branchTargets
                      THEN "label_" \o DecStr(branchTargets[t])
                      ELSE "&" \o Hex4(t)
                /\ (\E j \in DOMAIN out : out[j].kind = "header" /\ out[j].addr = t)
                      <=> t \in DOMAIN addressToOsCallName
                /\ t \in DOMAIN addressToOsCallName =>
                      HeaderDefines(addressToOsCallName[t], t)

----------------------------------------------------------------------------

\* C9: a second Disassemble call on the same Disassembler, nothing changed
\* by the caller in between, ends with the label table and the output of
\* the first call.
C9_SecondCallSame ==
    (calls = 2 /\ pc = "done") =>
        (out = firstOut /\ branchTargets = firstTargets)

----------------------------------------------------------------------------

\* the positions in out of the instruction and data lines
BodyLines == {i \in DOMAIN out : out[i].kind \in {"instr", "data"}}

\* the position in Program of the byte a line starts with
PositionOf(line) == USub(line.addr, BranchAdjust)

\* C10: every instruction line holds all the bytes of its instruction, also
\* when they go beyond Offset + MaxBytes; when Disassemble has returned the
\* cursor is at the end of the last line written, at Offset + MaxBytes or at
\* most 2 beyond it.
C10_LastInstructionWhole ==
    /\ pc \in {"pass2", "done"} =>
          \A i \in BodyLines :
              out[i].kind = "instr" =>
                  out[i].bytes =
                      SubSeq(Program, PositionOf(out[i]) + 1,
                             PositionOf(out[i]) + OpCodesMap[out[i].bytes[1]].Length)
    /\ pc = "done" =>
          /\ Offset + MaxBytes <= cursor
          /\ cursor <= Offset + MaxBytes + 2
          /\ Len(out) \in BodyLines =>
                cursor = PositionOf(out[Len(out)]) + Len(out[Len(out)].bytes)

\* a finished call whose last line is an instruction that goes beyond
\* Offset + MaxBytes
C10_Witness ==
    /\ pc = "done"
    /\ cursor > Offset + MaxBytes
    /\ out[Len(out)].kind = "instr"
    /\ PositionOf(out[Len(out)]) < Offset + MaxBytes
    /\ PositionOf(out[Len(out)]) + Len(out[Len(out)].bytes) = cursor

----------------------------------------------------------------------------

\* C11: for every program, every window inside the program, every load
\* address and every list of known-code addresses, neither pass fails at run
\* time: no index or slice of Program out of range, no slice of a data block
\* beyond its capacity.
C11_NoRunTimeFailure == pc # "panic"

----------------------------------------------------------------------------

\* a step of the analysis loop or of the decoding loop that is followed by
\* the loop's condition again
Iteration == pc \in {"pass1", "pass2"} /\ pc' = pc

\* C12: every iteration of either loop leaves the cursor beyond the place
\* where the iteration before it began (prevCur, or Offset for the first
\* iteration), so a loop comes to its end within MaxBytes iterations.
C12_CursorAdvances == [][Iteration => cursor' > prevCur]_vars

----------------------------------------------------------------------------

\* Disassemble has been entered and findBranchTargets has set up its loop
CallStarted == pc = "pass1" /\ last = NoStep

\* the positions in out of the header's definition lines
DefinitionLines == {i \in DOMAIN out : out[i].kind = "header" /\ out[i].name # ""}

\* C13: when a call starts the used-OS-call set, the used-OS-vector set and
\* the label table are empty, and the header of a call defines no name that
\* the call's own first pass did not mark used.
C13_FreshPerCall ==
    /\ CallStarted =>
          /\ usedOSAddress = {}
          /\ usedOSVector = {}
          /\ branchTargets = NoTargets
    /\ pc \in {"pass2", "done"} =>
          \A i \in DefinitionLines : out[i].addr \in marked.addr \cup marked.vec

----------------------------------------------------------------------------

\* the label table the running call's own first pass has built: the targets
\* it added that are reachable instructions, numbered in ascending order
OwnTargets == NumberTargets([a \in marked.tgt |-> 0], iloc)

\* the label lines of out, in order
RECURSIVE LabelsOf(_)
LabelsOf(lines) ==
    IF lines = <<>> THEN <<>>
    ELSE (IF Head(lines).kind = "label" THEN <<Head(lines)>> ELSE <<>>)
         \o LabelsOf(Tail(lines))

\* C14: with another Disassembler running at the same time, a call has
\* between its first and its second pass the label table its own first pass
\* built, and it writes the label lines of that table and no other (as it
\* does when run alone).
C14_OwnLabelTable ==
    /\ pc \in {"header", "pass2"} => branchTargets = OwnTargets
    /\ pc = "done" =>
          LabelsOf(out) =
              [i \in 1 .. Cardinality(DOMAIN OwnTargets) |->
                  LET a == CHOOSE x \in DOMAIN OwnTargets : OwnTargets[x] = i - 1
                  IN  LabelLine(a, i - 1)]

----------------------------------------------------------------------------

\* the positions in out of the header's lines
HeaderPart == {i \in DOMAIN out : out[i].kind = "header"}

\* the header line at i defines an OS call (else an OS vector)
IsOsCallLine(i) == out[i].addr \in DOMAIN addressToOsCallName

\* C15: nothing is written before the first pass has finished; then the
\* header is written once, before every label, instruction and data line;
\* it has one definition line for each address the call's first pass marked
\* used and no other, the OS calls before the OS vectors and each group in
\* ascending order of address; and it has the lines CODE% = &load address
\* and ORG CODE% iff BranchAdjust is not 0.
C15_HeaderOnce ==
    /\ pc \in {"pass1", "header"} => out = <<>>
    /\ pc \in {"pass2", "done"} =>
          /\ HeaderPart # {}
          /\ \A i \in HeaderPart : \A j \in 1 .. i : j \in HeaderPart
          /\ Cardinality({i \in HeaderPart :
                 out[i].text = "\\ This disassembly was produced by bbcdisasm"}) = 1
          /\ {out[i].addr : i \in DefinitionLines} = marked.addr \cup marked.vec
          /\ \A i, j \in DefinitionLines :
                i < j => \/ IsOsCallLine(i) /\ ~IsOsCallLine(j)
                         \/ /\ IsOsCallLine(i) = IsOsCallLine(j)
                            /\ out[i].addr < out[j].addr
          /\ \A i \in DefinitionLines :
                out[i].name = IF IsOsCallLine(i)
                              THEN addressToOsCallName[out[i].addr]
                              ELSE osVectorAddresses[out[i].addr]
          /\ (\E i \in HeaderPart : out[i].text = "ORG CODE%") <=> BranchAdjust # 0
          /\ (\E i \in HeaderPart : out[i].text = "CODE% = &" \o HexStr(BranchAdjust))
                <=> BranchAdjust # 0

----------------------------------------------------------------------------

\* the opcode at the start of the window
FirstOp == OpCodesMap[Program[Offset + 1]]

\* the bytes of the window
WindowBytes == SubSeq(Program, Offset + 1, Offset + MaxBytes)

\* the window holds exactly one instruction, documented and round-trip-safe,
\* and the caller supplied no known-code address
OneInstructionWindow ==
    /\ given = <<>>
    /\ Program[Offset + 1] \in DOMAIN OpCodesMap
    /\ FirstOp.Length = MaxBytes
    /\ FirstOp.Name \notin {"ANC", "SRE", "SLO"}
    /\ ~(/\ FirstOp.AddrMode \in {"Absolute", "AbsoluteX", "AbsoluteY"}
         /\ WindowBytes[2] + 256 * WindowBytes[3] < 256)

\* the lines of out after the header
RECURSIVE AfterHeader(_)
AfterHeader(lines) ==
    IF lines = <<>> THEN <<>>
    ELSE (IF Head(lines).kind = "header" THEN <<>> ELSE <<Head(lines)>>)
         \o AfterHeader(Tail(lines))

\* the one instruction line is as the claim describes it
TheInstructionLine(line) ==
    /\ line.kind = "instr"
    /\ line.addr = (Offset + BranchAdjust) % UintMod
    /\ line.bytes = WindowBytes
    /\ line.name = FirstOp.Name
    /\ FirstOp.AddrMode = "Immediate" =>
          line.text = "#&" \o HexDigits[(WindowBytes[2] \div 16) + 1]
                           \o HexDigits[(WindowBytes[2] % 16) + 1]

\* the one instruction of the window is a branch, or an absolute JMP or JSR,
\* to its own address
TargetsItself ==
    \/ /\ FirstOp.Name \in branchInstructions
       /\ WindowBytes[2] = 254
    \/ /\ Program[Offset + 1] \in {OpJMP_Absolute, OpJSR_Absolute}
       /\ WindowBytes[2] + 256 * WindowBytes[3] = (Offset + BranchAdjust) % UintMod

\* C16 as stated: a window holding exactly one documented, round-trip-safe
\* instruction and no known-code address gives exactly one instruction line
\* and no label or data line; the line has the address Offset + BranchAdjust
\* and the instruction's bytes, and an immediate operand is written #& and
\* the operand byte in two hex digits.
C16_OneInstructionLine ==
    (pc = "done" /\ OneInstructionWindow) =>
        /\ Len(AfterHeader(out)) = 1
        /\ TheInstructionLine(AfterHeader(out)[1])

\* C16 amended: the same, but the instruction line is preceded by the label
\* line label_0 when (and only when) the instruction is a branch or an
\* absolute JMP or JSR whose target is its own address; there is no data line.
C16_OneInstructionLineOrLabelled ==
    (pc = "done" /\ OneInstructionWindow) =>
        IF TargetsItself
        THEN /\ Len(AfterHeader(out)) = 2
             /\ AfterHeader(out)[1].kind = "label"
             /\ AfterHeader(out)[1].text = "label_0"
             /\ AfterHeader(out)[1].addr = (Offset + BranchAdjust) % UintMod
             /\ TheInstructionLine(AfterHeader(out)[2])
        ELSE /\ Len(AfterHeader(out)) = 1
             /\ TheInstructionLine(AfterHeader(out)[1])

\* LDA #&C8 alone in the window: one line, LDA #&C8 with the bytes A9 C8
C16_Witness ==
    /\ pc = "done"
    /\ OneInstructionWindow
    /\ WindowBytes = <<169, 200>>
    /\ Len(AfterHeader(out)) = 1
    /\ AfterHeader(out)[1].name = "LDA"
    /\ AfterHeader(out)[1].text = "#&C8"
    /\ AfterHeader(out)[1].bytes = <<169, 200>>

----------------------------------------------------------------------------

\* the disasm command has called Disassemble
DisassembleCalled == cli.stage # "none" /\ calls > 0

\* C17: whenever the disasm command calls Disassemble, the window it has
\* set lies within the file: 0 <= Offset < file length and
\* Offset + MaxBytes <= file length; with no length argument MaxBytes is
\* the file length less Offset.
C17_WindowWithinFile ==
    DisassembleCalled =>
        /\ 0 <= Offset
        /\ Offset < Len(Program)
        /\ Offset + MaxBytes <= Len(Program)
        /\ Len(cli.args) < 3 => MaxBytes = Len(Program) - Offset

----------------------------------------------------------------------------

\* the numbers among the argument strings, and their values
NumberArgs ==
    [s \in { <<"-", "1">>, <<"0">>, <<"1">>, <<"2">>, <<"3">>, <<"4">>,
             <<"0", "x", "2">> } |->
        CASE s = <<"-", "1">> -> 0 - 1
          [] s = <<"0">> -> 0
          [] s = <<"1">> -> 1
          [] s = <<"2">> -> 2
          [] s = <<"3">> -> 3
          [] s = <<"4">> -> 4
          [] s = <<"0", "x", "2">> -> 2]

\* the entries of the --codeaddrs values drawn
CodeAddrEntries ==
    [s \in CodeAddrArgs |->
        CASE s = <<>> -> <<>>
          [] s = <<"1">> -> << <<"1">> >>
          [] s = <<"x">> -> << <<"x">> >>
          [] s = <<"-", "1">> -> << <<"-", "1">> >>
          [] s = <<"1", ",", "2">> -> << <<"1">>, <<"2">> >>
          [] s = <<"2", ",", "x">> -> << <<"2">>, <<"x">> >>]

\* one of the argument errors of the claim
ArgumentError ==
    \/ Len(cli.args) < 1
    \/ /\ Len(cli.args) >= 2
       /\ \/ cli.args[2] \notin DOMAIN NumberArgs
          \/ NumberArgs[cli.args[2]] < 0
          \/ NumberArgs[cli.args[2]] >= Len(Program)
    \/ /\ Len(cli.args) >= 3
       /\ \/ cli.args[3] \notin DOMAIN NumberArgs
          \/ NumberArgs[cli.args[3]] < 0
    \/ \E i \in DOMAIN CodeAddrEntries[cli.codeaddrs] :
          \/ CodeAddrEntries[cli.codeaddrs][i] \notin DOMAIN NumberArgs
          \/ NumberArgs[CodeAddrEntries[cli.codeaddrs][i]] < 0
    \/ cli.definevar \in { << <<"a">> >>, << <<"a", "=", "x">> >> }

\* C18: with no file argument, an offset that is no number, negative or not
\* below the file length, a length that is no number or negative, a
\* --codeaddrs entry that is no number or negative, or a -D definition
\* without = or with a value that is no number, the command never calls
\* Disassemble and, once it has looked at its arguments, has returned an
\* error with exit code 1; it calls Disassemble only when none of these is
\* the case.
C18_ErrorsBeforeDisassemble ==
    cli.stage # "none" =>
        /\ ArgumentError => /\ calls = 0
                            /\ pc = "idle"
                            /\ cli.stage \in {"start", "window", "exit"}
        /\ (ArgumentError /\ cli.stage = "window") =>
              ~ParseWindow(cli.args, Len(Program)).err
        /\ cli.stage = "exit" => cli.code = 1 /\ calls = 0
        /\ cli.stage = "ready" => ~ArgumentError /\ cli.code = 0
        /\ DisassembleCalled => cli.stage = "ready"

\* the command was given a window that lies in the file and a negative
\* known-code address, and has returned an error without calling Disassemble
C18_Witness ==
    /\ cli.stage = "exit"
    /\ cli.code = 1
    /\ cli.codeaddrs = <<"-", "1">>
    /\ Len(cli.args) = 3
    /\ ~ParseWindow(cli.args, Len(Program)).err
    /\ calls = 0

\* the command was given a file, a window, a known-code address and a
\* variable, all well-formed, and Disassemble has returned
C18_WitnessAccepted ==
    /\ cli.stage = "ready"
    /\ Len(cli.args) = 3
    /\ cli.codeaddrs # <<>>
    /\ cli.definevar # <<>>
    /\ pc = "done"

----------------------------------------------------------------------------

\* the addresses at which the second pass started an instruction or data line
LineStarts == {out[i].addr : i \in BodyLines}

\* C19: when Disassemble has returned, the addresses the first pass recorded
\* as reachable instruction starts are the addresses at which the second
\* pass started a line: both passes visited the same cursor positions.
C19_SamePositions == pc = "done" => iloc = LineStarts

----------------------------------------------------------------------------

\* the latest iteration met a known opcode while a known-code address was
\* pending; in the first pass a straddling instruction consumes the address
StepHadPending ==
    /\ \/ last.pass = 1 /\ pc \in {"pass1", "header"}
       \/ last.pass = 2
    /\ last.known
    /\ last.kind # "panic"
    /\ IF last.pass = 1 /\ last.kind = "skip" THEN TRUE ELSE HasPending

\* the known-code address that was pending in the latest iteration
StepPending ==
    IF last.pass = 1 /\ last.kind = "skip" THEN CodeAddrs[codeAddrIdx]
    ELSE Pending

\* C20: in both passes an instruction at c of length L straddles the pending
\* known-code address A iff c + L > A; one that ends exactly at A does not,
\* so the first pass takes its branch or jump and the second pass, if it is
\* documented and round-trip-safe, writes it as an instruction.
C20_StraddlesIffBeyond ==
    StepHadPending =>
        /\ last.straddles <=>
              last.at + OpCodesMap[LastByte].Length > StepPending
        /\ last.at + OpCodesMap[LastByte].Length = StepPending =>
              \/ last.pass = 1 /\ last.kind = "code"
              \/ /\ last.pass = 2
                 /\ last.kind = IF last.doc /\ last.wai THEN "instr" ELSE "data"


----------------------------------------------------------------------------

\* the names of the two registries
RegistryNames ==
    {addressToOsCallName[a] : a \in DOMAIN addressToOsCallName}
        \cup {osVectorAddresses[a] : a \in DOMAIN osVectorAddresses}

\* the registry names the operand of a line is written with
NamesOn(line) ==
    {n \in RegistryNames : line.text = n \/ line.text = n \o "+1"}

\* the positions in out of the instruction lines
InstrLines == {i \in DOMAIN out : out[i].kind = "instr"}

\* C21: every OS-call name, OS-vector name or vector name followed by +1
\* that the second pass writes as an operand is defined in the header of the
\* same output.
C21_NamesDefined ==
    pc \in {"pass2", "done"} =>
        \A i \in InstrLines : \A n \in NamesOn(out[i]) :
            \E j \in DefinitionLines : out[j].name = n


----------------------------------------------------------------------------

\* C22: when Disassemble has returned, every definition line of the header
\* names an OS call or OS vector that at least one instruction line has as
\* its operand; an operand that is only written as data defines nothing.
C22_OnlyReferencedNames ==
    pc = "done" =>
        \A j \in DefinitionLines :
            \E i \in InstrLines : out[j].name \in NamesOn(out[i])


----------------------------------------------------------------------------

\* an iteration of the loop of one of the two passes
LoopIteration == pc' = pc /\ pc \in {"pass1", "pass2"}

\* the entries of the known-code list the latest iteration had consumed when
\* it read the opcode at the cursor (a straddling instruction of the first
\* pass consumes one more afterwards)
ConsumedAtDecode ==
    IF last.pass = 1 /\ last.kind = "skip" THEN codeAddrIdx - 1
    ELSE codeAddrIdx

\* C23: in both passes the index into the known-code list never decreases,
\* so every entry is consumed at most once and in ascending order, and once
\* an entry is consumed the cursor is not below it: neither where the
\* iteration reads its opcode (prevCur) nor where the iteration ends.
C23_ConsumedBehindCursor ==
    [][LoopIteration =>
          /\ codeAddrIdx' >= codeAddrIdx
          /\ \A i \in 1 .. ConsumedAtDecode' : prevCur' >= CodeAddrs'[i]
          /\ \A i \in 1 .. codeAddrIdx' : cursor' >= CodeAddrs'[i]]_vars


----------------------------------------------------------------------------

\* findBranchTargets has returned and the table is the one it built
TableBuilt == pc \in {"header", "pass2", "done"}

\* C24: once findBranchTargets has returned, every key of the label table
\* is an address that pass recorded as a reachable instruction start, the
\* indices are exactly 0 .. n-1 with no index used twice, and a greater
\* address has a greater index.
C24_LabelsNumbered ==
    TableBuilt =>
        /\ DOMAIN branchTargets \subseteq iloc
        /\ {branchTargets[a] : a \in DOMAIN branchTargets} =
              0 .. Cardinality(DOMAIN branchTargets) - 1
        /\ \A a, b \in DOMAIN branchTargets :
              a < b => branchTargets[a] < branchTargets[b]


----------------------------------------------------------------------------

\* c + BranchAdjust + 2 + d as an integer, for the branch whose bytes are at
\* position c of the program; d is the operand byte read as a signed value
TargetValue(c) ==
    c + BranchAdjust + 2 +
        (IF Program[c + 2] >= 128 THEN Program[c + 2] - 256 ELSE Program[c + 2])

\* the uint that value becomes
TargetAddress(c) == TargetValue(c) % UintMod

\* the latest iteration of the given pass took the bytes at last.at as a
\* relative branch: the first pass as code, the second as an instruction line
BranchTaken(pass) ==
    /\ last.pass = pass
    /\ last.kind = (IF pass = 1 THEN "code" ELSE "instr")
    /\ OpCodesMap[Program[last.at + 1]].Name \in branchInstructions

\* C25: for a relative branch at cursor c the first pass adds the candidate
\* c + BranchAdjust + 2 + d and the second pass looks up that same address:
\* it writes the label of it if it is a key of the label table and the P%
\* expression otherwise. When the value is negative the wrapped address is
\* no reachable instruction start, is not in the label table and the
\* operand is the P% expression.
C25_SameBranchTarget ==
    [][/\ (pc = "pass1" /\ pc' = "pass1" /\ BranchTaken(1)') =>
              /\ marked'.tgt = marked.tgt \cup {TargetAddress(last'.at)}
              /\ TargetAddress(last'.at) \in DOMAIN branchTargets'
       /\ (pc = "pass2" /\ pc' = "pass2" /\ BranchTaken(2)') =>
              LET tgt  == TargetAddress(last'.at)
                  line == out'[Len(out')]
              IN  /\ line.text =
                        IF tgt \in DOMAIN branchTargets
                        THEN LabelName(branchTargets[tgt])
                        ELSE "P%" \o SignedDec(TargetValue(last'.at)
                                                - last'.at - BranchAdjust)
                  /\ TargetValue(last'.at) < 0 =>
                        /\ tgt \notin iloc
                        /\ tgt \notin DOMAIN branchTargets
                        /\ line.text = "P%" \o SignedDec(TargetValue(last'.at)
                                                          - last'.at - BranchAdjust)
      ]_vars

\* a finished call whose first pass added a wrapped candidate for a branch
\* that the second pass wrote with the P% expression
C25_Witness ==
    /\ pc = "done"
    /\ \E i \in BranchLines :
          /\ out[i].addr + 2 + Displacement(out[i]) < 0
          /\ TargetOf(out[i]) \in marked.tgt
          /\ TargetOf(out[i]) \notin iloc
          /\ out[i].text = "P%" \o SignedDec(Displacement(out[i]) + 2)


----------------------------------------------------------------------------

\* an iteration of the first pass's loop that did not fail
FindIteration == pc = "pass1" /\ pc' = "pass1"

\* the length of the known opcode the latest iteration read
StepLength == OpCodesMap[Program[last.at + 1]].Length

\* the iteration adds no candidate target and marks nothing used
NothingRecorded ==
    /\ branchTargets' = branchTargets
    /\ usedOSAddress' = usedOSAddress
    /\ usedOSVector' = usedOSVector
    /\ marked' = marked

\* C26: in the first pass an unknown opcode at c moves the cursor to c + 1
\* and records nothing; a known opcode is skipped iff a known-code address A
\* is pending and c + Length > A, and then nothing is recorded, the entry is
\* consumed and the cursor is exactly A.
C26_FirstPassSkips ==
    [][FindIteration =>
          /\ (last'.kind = "data") =>
                /\ Program[last'.at + 1] \notin DOMAIN OpCodesMap
                /\ cursor' = last'.at + 1
                /\ NothingRecorded
          /\ (last'.kind = "skip") =>
                /\ codeAddrIdx' >= 1
                /\ last'.at + StepLength' > CodeAddrs[codeAddrIdx']
                /\ cursor' = CodeAddrs[codeAddrIdx']
                /\ NothingRecorded
          /\ (last'.kind = "code" /\ codeAddrIdx' < Len(CodeAddrs)) =>
                last'.at + StepLength' <= CodeAddrs[codeAddrIdx' + 1]
      ]_vars

\* the first pass has just skipped a branch or jump that reaches beyond the
\* pending known-code address ahead of it, with no candidate added so far
C26_Witness ==
    /\ pc = "pass1"
    /\ last.pass = 1
    /\ last.kind = "skip"
    /\ Program[last.at + 1] \in {48, 76}
    /\ cursor = CodeAddrs[codeAddrIdx]
    /\ cursor > last.at
    /\ marked = NoMarks
    /\ branchTargets = NoTargets


----------------------------------------------------------------------------

\* the opcode byte the latest iteration read, and the two bytes after it
\* read as a 16-bit value, low byte first
StepOpcode == Program[last.at + 1]

StepOperand == Program[last.at + 2] + 256 * Program[last.at + 3]

\* C27: when the first pass takes an instruction, an indirect JMP (6C)
\* records nothing; an absolute JMP (4C) or JSR (20) adds its 16-bit operand
\* as a candidate and marks it as a used OS call iff it is in the OS-call
\* registry, and marks no vector; any instruction that is neither a branch
\* nor a jump adds no candidate and no OS call and marks its operand as a
\* used OS vector iff its mode is Absolute and the operand is in the
\* OS-vector registry.
C27_FirstPassMarks ==
    [][(FindIteration /\ last'.kind = "code") =>
          /\ (StepOpcode' = 108) => NothingRecorded
          /\ (StepOpcode' \in {76, 32}) =>
                /\ marked'.tgt = marked.tgt \cup {StepOperand'}
                /\ DOMAIN branchTargets' = DOMAIN branchTargets \cup {StepOperand'}
                /\ usedOSAddress' =
                      IF StepOperand' \in DOMAIN addressToOsCallName
                      THEN usedOSAddress \cup {StepOperand'}
                      ELSE usedOSAddress
                /\ usedOSVector' = usedOSVector
          /\ (OpCodesMap[StepOpcode'].Name \notin
                  branchInstructions \cup jumpInstructions) =>
                /\ branchTargets' = branchTargets
                /\ usedOSAddress' = usedOSAddress
                /\ usedOSVector' =
                      IF /\ OpCodesMap[StepOpcode'].AddrMode = "Absolute"
                         /\ StepOperand' \in DOMAIN osVectorAddresses
                      THEN usedOSVector \cup {StepOperand'}
                      ELSE usedOSVector
      ]_vars

\* the first pass has just taken JMP &FFF7: the operand is a candidate and
\* OSCLI is marked used
C27_Witness ==
    /\ pc = "pass1"
    /\ last.pass = 1
    /\ last.kind = "code"
    /\ StepOpcode = 76
    /\ StepOperand = 65527
    /\ 65527 \in DOMAIN branchTargets
    /\ usedOSAddress = {65527}
    /\ usedOSVector = {}


----------------------------------------------------------------------------

\* the positions in out of the Absolute-mode instructions written as code
\* that are no JMP and no JSR
AbsoluteLines ==
    {i \in InstrLines :
        /\ OpCodesMap[out[i].bytes[1]].AddrMode = "Absolute"
        /\ out[i].bytes[1] \notin {76, 32}}

\* the 16-bit operand on a line, low byte first
OperandOf(line) == line.bytes[2] + 256 * line.bytes[3]

\* the names of the variables that have the value v
VariablesWith(v) ==
    {JoinChars(Variables[i].name) :
        i \in {j \in DOMAIN Variables : Variables[j].val = v}}

----------------------------------------------------------------------------

\* an iteration of the second pass's loop that wrote a data line
DataIteration == pc = "pass2" /\ pc' = "pass2" /\ last'.kind = "data"

\* the line the latest iteration wrote
StepLine == out[Len(out)]

\* the latest iteration read a known opcode
StepKnown == StepOpcode \in DOMAIN OpCodesMap

\* a known-code address was pending in the latest iteration of the second
\* pass and the instruction at the cursor reached beyond it
StepBeyondPending ==
    /\ StepKnown
    /\ HasPending
    /\ last.at + StepLength > Pending

\* C29: a data line written by the second pass at cursor c holds the
\* program's bytes from c on: 1 byte for an unknown opcode, A - c bytes for
\* a known opcode that reaches beyond the pending known-code address A, and
\* Length bytes for any other known opcode; the cursor is then c plus the
\* number of bytes on the line; the line carries UD and the mnemonic iff
\* the opcode is known and undocumented.
C29_DataLines ==
    [][DataIteration =>
          LET n == Len(StepLine'.bytes)
          IN  /\ StepLine'.kind = "data"
              /\ StepLine'.bytes = SubSeq(Program, last'.at + 1, last'.at + n)
              /\ n = IF ~StepKnown' THEN 1
                     ELSE IF StepBeyondPending' THEN Pending' - last'.at
                     ELSE StepLength'
              /\ cursor' = last'.at + n
              /\ StepLine'.ud <=>
                    /\ StepKnown'
                    /\ OpCodesMap[StepOpcode'].Name \in UndocumentedInstructions
              /\ StepLine'.ud => StepLine'.name = OpCodesMap[StepOpcode'].Name
      ]_vars

\* a finished call that wrote the undocumented SRE twice as data: once cut
\* to one byte at a known-code address, once with both its bytes
C29_Witness ==
    /\ pc = "done"
    /\ \E i, j \in BodyLines :
          /\ out[i].kind = "data" /\ out[i].ud /\ out[i].name = "SRE"
          /\ out[i].bytes = <<83>>
          /\ out[j].kind = "data" /\ out[j].ud /\ out[j].name = "SRE"
          /\ Len(out[j].bytes) = 2


----------------------------------------------------------------------------

\* C30: no step of Disassemble changes Program, Offset, MaxBytes or
\* BranchAdjust, and from the start of the decoding loop until Disassemble
\* returns the label table (its keys and their indices), the used OS calls
\* and the used OS vectors stay as they are.
C30_SecondPassOnlyReads ==
    [][/\ Program' = Program
       /\ Offset' = Offset
       /\ MaxBytes' = MaxBytes
       /\ BranchAdjust' = BranchAdjust
       /\ (pc = "pass2") =>
             /\ branchTargets' = branchTargets
             /\ usedOSAddress' = usedOSAddress
             /\ usedOSVector' = usedOSVector
      ]_vars

\* a finished call whose second pass has used the label table: it wrote a
\* label line and a branch to that label, and the table is still there
C30_Witness ==
    /\ pc = "done"
    /\ \E a \in DOMAIN branchTargets :
          /\ \E i \in DOMAIN out :
                out[i] = LabelLine(a, branchTargets[a])
          /\ \E j \in BranchLines :
                /\ TargetOf(out[j]) = a
                /\ out[j].text = LabelName(branchTargets[a])

====
